---- MODULE Spec2Model ----
(***************************************************************************)
(* Model of the metalRough transform (spec/gloss -> metal/rough PBR         *)
(* conversion) of glTF-Transform, and of the extension disposal exercised   *)
(* by the materials-specular test.                                          *)
(*                                                                          *)
(* The document is a graph of materials, textures and extension records.    *)
(* Factors are fixed-point numbers in units of 1/Unit; pixel channels are   *)
(* bytes.  The transform is an async function: one action per synchronous   *)
(* stretch between two awaits (plus the two trailing passes).               *)
(***************************************************************************)
EXTENDS Integers, Sequences, FiniteSets

\* ---- bounds of the model ------------------------------------------------
NMat == 2        \* materials in the document
NTex == 2        \* textures in the document before the first run
MaxRec == 2      \* spec/gloss records in the document
MaxBind == 4     \* texture bindings set in the initial document
MaxCalls == 2     \* invocations of the transform
MaxDim == 2      \* largest image width and height
Unit == 4        \* factors are multiples of 1/Unit (1.0 is Unit)

\* ---- program constants --------------------------------------------------
ByteMax == 255
IORValue == 1000

SG == "KHR_materials_pbrSpecularGlossiness"
IOR == "KHR_materials_ior"
SPECULAR == "KHR_materials_specular"
ExtensionNames == {SG, IOR, SPECULAR}

Null == 0        \* an absent texture or record

\* ---- images -------------------------------------------------------------
\* A pixel is <<c0, c1, c2, c3>>; channel c is element c + 1.
get(p, c) == p[c + 1]
set(p, c, v) == [p EXCEPT ![c + 1] = v % (ByteMax + 1)]

NoImage == [w |-> 0, h |-> 0, px |-> << >>]

\* The image of initial texture t: its shape and its pixels depend on t.
ShapeW(t) == 1 + (t % MaxDim)
ShapeH(t) == 1 + ((t \div MaxDim) % MaxDim)
SourcePixel(t, i, j) ==
    << (40 * t + i) % (ByteMax + 1),
       (80 * t + j) % (ByteMax + 1),
       (16 * i + j + 7) % (ByteMax + 1),
       (253 * t + 3 * i + 2 * j) % (ByteMax + 1) >>
SourceImage(t) ==
    [w |-> ShapeW(t), h |-> ShapeH(t),
     px |-> [k \in 1..(ShapeW(t) * ShapeH(t)) |->
                SourcePixel(t, (k - 1) % ShapeW(t), (k - 1) \div ShapeW(t))]]

\* Math.round of the non-negative rational n / d (halves round up).
MathRound(n, d) == (2 * n + d) \div (2 * d)

Channel == 0..ByteMax
Pixel == Channel \X Channel \X Channel \X Channel

\* The callback of the first recoding: remove glossiness.
specularCallback == [p \in Pixel |-> set(p, 3, ByteMax)]

\* Faulty variant: the alpha is overwritten before the roughness is computed from it.
roughnessCallbackStripped(glossinessFactor) ==
    [p \in Pixel |->
        LET p3 == set(p, 3, ByteMax)
            roughness == ByteMax - MathRound(get(p3, 3) * glossinessFactor, Unit)
            p0 == set(p3, 0, 0)
            p1 == set(p0, 1, roughness)
        IN  set(p1, 2, 0)]

\* The callback of the second recoding: invert glossiness.  The statements
\* run in order on the one pixel buffer the recoder hands over.
roughnessCallback(glossinessFactor) ==
    [p \in Pixel |->
        LET roughness == ByteMax - MathRound(get(p, 3) * glossinessFactor, Unit)
            p0 == set(p, 0, 0)
            p1 == set(p0, 1, roughness)
            p2 == set(p1, 2, 0)
        IN  set(p2, 3, ByteMax)]

\* rewriteTexture(source, target, fn): decode the source into a fresh pixel
\* buffer, call fn once per pixel, and store the buffer as the target image.
rewriteTexture(image, fn) ==
    [w |-> image.w, h |-> image.h,
     px |-> [k \in 1..Len(image.px) |-> fn[image.px[k]]]]

VARIABLES
    materials,        \* [1..NMat -> material]
    textures,         \* sequence of textures, a texture's id is its index
    sgRecs,           \* PBRSpecularGlossiness records
    iorRecs,          \* IOR records
    specRecs,         \* Specular records
    extensionsUsed,   \* names of the extensions the document declares
    pc,               \* position of the transform
    idx,              \* material of the current loop iteration
    inputTextures,    \* the Set stashed for cleanup (Null may be a member)
    specular,         \* local: Specular record of the current material
    specularTexture,  \* local: texture created at line 106
    metalRoughTexture,\* local: texture created at line 116
    calls,            \* calls made on the document so far
    pre,              \* history: the document when the current run started
    lastDispose       \* history: what the last registry disposal detached

vars == << materials, textures, sgRecs, iorRecs, specRecs, extensionsUsed, pc,
           idx, inputTextures, specular, specularTexture, metalRoughTexture,
           calls, pre, lastDispose >>

Mats == 1..NMat

\* ---- the initial document -----------------------------------------------
\* The ...Info field of a binding stands for its TextureInfo and its sampler,
\* which the transform always copies together.
DefaultMaterial ==
    [baseColorFactor |-> << Unit, Unit, Unit, Unit >>,
     metallicFactor |-> Unit,
     roughnessFactor |-> Unit,
     baseColorTexture |-> Null, baseColorTextureInfo |-> 0,
     metallicRoughnessTexture |-> Null, metallicRoughnessTextureInfo |-> 0,
     sg |-> Null, ior |-> Null, spec |-> Null]

\* Factors of the r-th spec/gloss record of the initial document.
DiffuseOf(r) == << Unit, (r - 1) % (Unit + 1), 0, Unit >>
SpecularOf(r) == << Unit \div 2, r % (Unit + 1), Unit \div 2 >>
GlossOf(r) == r % (Unit + 1)

MaxOf(S) == IF S = {} THEN 0 ELSE CHOOSE x \in S : \A y \in S : y <= x

\* Records are numbered in the order the materials first use them.
Canonical(att) ==
    \A m \in Mats : att[m] <= 1 + MaxOf({att[n] : n \in 1..(m - 1)})

Snapshot ==
    [materials |-> materials, textures |-> textures, sgRecs |-> sgRecs,
     iorRecs |-> iorRecs, specRecs |-> specRecs,
     extensionsUsed |-> extensionsUsed]

NoDispose == [ext |-> "none", mats |-> {}, shared |-> FALSE]

\* What every initial state shares: no run has started.
InitControl ==
    /\ iorRecs = << >>
    /\ specRecs = << >>
    /\ pc = "idle"
    /\ idx = 0
    /\ inputTextures = {}
    /\ specular = Null
    /\ specularTexture = Null
    /\ metalRoughTexture = Null
    /\ calls = 0
    /\ pre = [materials |-> materials, textures |-> textures, sgRecs |-> sgRecs,
              iorRecs |-> << >>, specRecs |-> << >>,
              extensionsUsed |-> extensionsUsed]
    /\ lastDispose = NoDispose

SGRecord(diffuse, spec, gloss, diffuseTexture, sgTexture) ==
    [diffuseFactor |-> diffuse,
     specularFactor |-> spec,
     glossinessFactor |-> gloss,
     diffuseTexture |-> diffuseTexture, diffuseTextureInfo |-> 1,
     specularGlossinessTexture |-> sgTexture,
     specularGlossinessTextureInfo |-> 2,
     live |-> TRUE]

InitialTexture(image) ==
    [live |-> TRUE, image |-> image, by |-> Null, slot |-> "none"]

\* Documents of every shape: which material holds which record, records
\* shared or not, and up to MaxBind texture bindings placed anywhere.
Init ==
    /\ \E att \in [Mats -> 0..MaxRec], declared \in BOOLEAN :
         /\ Canonical(att)
         /\ LET k == MaxOf({att[m] : m \in Mats}) IN
            \E mt \in [Mats -> (0..NTex) \X (0..NTex)],
               rt \in [1..k -> (0..NTex) \X (0..NTex)] :
              /\ Cardinality({m \in Mats : mt[m][1] # Null})
                   + Cardinality({m \in Mats : mt[m][2] # Null})
                   + Cardinality({r \in 1..k : rt[r][1] # Null})
                   + Cardinality({r \in 1..k : rt[r][2] # Null}) <= MaxBind
              /\ k > 0 => declared
              /\ materials = [m \in Mats |->
                    [DefaultMaterial EXCEPT
                        !.baseColorTexture = mt[m][1],
                        !.metallicRoughnessTexture = mt[m][2],
                        !.sg = att[m]]]
              /\ sgRecs = [r \in 1..k |->
                    SGRecord(DiffuseOf(r), SpecularOf(r), GlossOf(r),
                             rt[r][1], rt[r][2])]
              /\ extensionsUsed = IF declared THEN {SG} ELSE {}
    /\ textures = [t \in 1..NTex |-> InitialTexture(SourceImage(t))]
    /\ InitControl

\* An image of the given shape whose alpha channel starts at a.
SeededImage(w, h, a) ==
    [w |-> w, h |-> h,
     px |-> [k \in 1..(w * h) |->
               LET i == (k - 1) % w
                   j == (k - 1) \div w
               IN  << (40 + i) % (ByteMax + 1),
                      (80 + j) % (ByteMax + 1),
                      (16 * i + j + 7) % (ByteMax + 1),
                      (a + 3 * i + 2 * j) % (ByteMax + 1) >>]]

\* With the offsets of a MaxDim x MaxDim image these cover every alpha.
AlphaSeeds == {a \in 0..ByteMax : a % 4 = 0}

\* Documents of one shape and every value: the first material holds the one
\* spec/gloss record, which the second may share, with or without a combined
\* texture, for every glossiness factor, every alpha and every image shape.
InitValues ==
    /\ \E gloss \in 0..Unit, r \in 1..2, w \in 1..MaxDim, h \in 1..MaxDim,
          a \in AlphaSeeds, combined \in BOOLEAN, shared \in BOOLEAN :
         /\ combined => r = 1
         /\ ~combined => (w = 1 /\ h = 1 /\ a = 0)
         /\ materials = [m \in Mats |->
               IF m = 1 \/ (m = 2 /\ shared)
               THEN [DefaultMaterial EXCEPT !.sg = 1]
               ELSE DefaultMaterial]
         /\ sgRecs = << SGRecord(DiffuseOf(r), SpecularOf(r), gloss, Null,
                                 IF combined THEN 1 ELSE Null) >>
         /\ textures = [t \in 1..NTex |->
               InitialTexture(IF t = 1 THEN SeededImage(w, h, a)
                              ELSE SourceImage(t))]
    /\ extensionsUsed = {SG}
    /\ InitControl

\* ---- the scene graph ----------------------------------------------------
\* listParents(): the document root, which owns every texture, and every
\* binding of a material or of a live extension record that refers to it.
listParentsIn(doc, t) ==
    {<< "Root", 0, "textures" >>}
    \cup {<< "Material", m, "baseColorTexture" >> :
            m \in {n \in Mats : doc.materials[n].baseColorTexture = t}}
    \cup {<< "Material", m, "metallicRoughnessTexture" >> :
            m \in {n \in Mats : doc.materials[n].metallicRoughnessTexture = t}}
    \cup {<< "PBRSpecularGlossiness", r, "diffuseTexture" >> :
            r \in {q \in DOMAIN doc.sgRecs :
                     doc.sgRecs[q].live /\ doc.sgRecs[q].diffuseTexture = t}}
    \cup {<< "PBRSpecularGlossiness", r, "specularGlossinessTexture" >> :
            r \in {q \in DOMAIN doc.sgRecs :
                     /\ doc.sgRecs[q].live
                     /\ doc.sgRecs[q].specularGlossinessTexture = t}}
    \cup {<< "Specular", s, "specularTexture" >> :
            s \in {q \in DOMAIN doc.specRecs :
                     doc.specRecs[q].live /\ doc.specRecs[q].specularTexture = t}}

listParents(t) == listParentsIn(Snapshot, t)

\* doc.createTexture(): a new texture without an image, owned by the root.
\* by and slot record which material's conversion created it, and for what.
createTexture(by, slot) ==
    Append(textures, [live |-> TRUE, image |-> NoImage, by |-> by, slot |-> slot])

\* doc.createExtension(ctor): the registry of the document, declared as used.
createExtension(used, name) == used \cup {name}

\* The record of extension e attached to material record mat.
getExtension(mat, e) ==
    IF e = SG THEN mat.sg ELSE IF e = IOR THEN mat.ior ELSE mat.spec

\* Faulty variant: the disposal leaves the records attached.
detachNothing(mat, e) == mat

detach(mat, e) ==
    IF e = SG THEN [mat EXCEPT !.sg = Null]
    ELSE IF e = IOR THEN [mat EXCEPT !.ior = Null]
    ELSE [mat EXCEPT !.spec = Null]

killAll(recs) == [r \in DOMAIN recs |-> [recs[r] EXCEPT !.live = FALSE]]

\* Extension.dispose(): every record of the registry is disposed, which
\* detaches it from the materials holding it and drops its texture
\* bindings, and the document no longer declares the extension.
ExtensionDispose(e) ==
    /\ materials' = [m \in Mats |-> detach(materials[m], e)]
    /\ sgRecs' = IF e = SG THEN killAll(sgRecs) ELSE sgRecs
    /\ iorRecs' = IF e = IOR THEN killAll(iorRecs) ELSE iorRecs
    /\ specRecs' = IF e = SPECULAR THEN killAll(specRecs) ELSE specRecs
    /\ extensionsUsed' = extensionsUsed \ {e}
    /\ lastDispose' =
         [ext |-> e,
          mats |-> {m \in Mats : getExtension(materials[m], e) # Null},
          shared |-> \E m, n \in Mats :
                        /\ m # n
                        /\ getExtension(materials[m], e) # Null
                        /\ getExtension(materials[m], e) = getExtension(materials[n], e)]

\* ---- metalRough ---------------------------------------------------------
Idle == pc \in {"idle", "skipped", "done", "failed"}

\* Faulty variant: the registries are created before the early return is decided.
StartCreatesFirst ==
    /\ Idle
    /\ calls < MaxCalls
    /\ calls' = calls + 1
    /\ pre' = Snapshot
    /\ extensionsUsed' =
         createExtension(createExtension(createExtension(
             extensionsUsed, IOR), SPECULAR), SG)
    /\ pc' = IF SG \notin extensionsUsed THEN "skipped" ELSE "loop"
    /\ inputTextures' = {}
    /\ idx' = 1
    /\ specular' = Null
    /\ specularTexture' = Null
    /\ metalRoughTexture' = Null
    /\ UNCHANGED << materials, textures, sgRecs, iorRecs, specRecs, lastDispose >>

\* Lines 51-64: the early return, or the three registries and the empty Set.
Start ==
    /\ Idle
    /\ calls < MaxCalls
    /\ calls' = calls + 1
    /\ pre' = Snapshot
    /\ IF SG \notin extensionsUsed
       THEN /\ pc' = "skipped"
            /\ UNCHANGED << materials, textures, sgRecs, iorRecs, specRecs,
                            extensionsUsed, idx, inputTextures, specular,
                            specularTexture, metalRoughTexture, lastDispose >>
       ELSE /\ pc' = "loop"
            /\ extensionsUsed' =
                 createExtension(createExtension(createExtension(
                     extensionsUsed, IOR), SPECULAR), SG)
            /\ inputTextures' = {}
            /\ idx' = 1
            /\ specular' = Null
            /\ specularTexture' = Null
            /\ metalRoughTexture' = Null
            /\ UNCHANGED << materials, textures, sgRecs, iorRecs, specRecs,
                            lastDispose >>

\* Lines 71-73: the new Specular record.
createSpecular(specGloss) ==
    [specularFactor |-> Unit,
     specularColorFactor |-> specGloss.specularFactor,
     specularTexture |-> Null, specularTextureInfo |-> 0,
     live |-> TRUE]

\* Line 89: the new IOR record.
createIOR == [ior |-> IORValue, live |-> TRUE]

\* Faulty variant: the prior metallic-roughness texture is not stashed.
stashWithoutMetalRough(mat, specGloss) ==
    {specGloss.specularGlossinessTexture, mat.baseColorTexture}

\* Lines 76-78: the textures stashed for cleanup.
stash(mat, specGloss) ==
    {specGloss.specularGlossinessTexture, mat.baseColorTexture,
     mat.metallicRoughnessTexture}

\* Lines 85-90: factors and the two new records.
setMetalRough(mat, specGloss, iorId, specId) ==
    [mat EXCEPT !.baseColorFactor = specGloss.diffuseFactor,
                !.metallicFactor = 0,
                !.roughnessFactor = Unit,
                !.ior = iorId,
                !.spec = specId]

\* Lines 93-98: diffuse -> baseColor.
moveDiffuse(mat, specGloss) ==
    IF specGloss.diffuseTexture # Null
    THEN [mat EXCEPT !.baseColorTexture = specGloss.diffuseTexture,
                     !.baseColorTextureInfo = specGloss.diffuseTextureInfo]
    ELSE mat

\* Faulty variant: the placeholder roughness is left in place.
scalarRoughnessPlaceholder(glossinessFactor) == Unit

\* Line 130: the scalar roughness.  (Line 129 sets the specular color
\* factor to the value createSpecular already gave it.)
scalarRoughness(glossinessFactor) == Unit - glossinessFactor

\* Line 134: remove the record from the material.
removeSpecGloss(mat) == [mat EXCEPT !.sg = Null]

\* One loop iteration up to its first await (or to its end): lines 66-106,
\* and 128-134 when there is no combined texture.
ConvertMaterial ==
    /\ pc = "loop"
    /\ idx <= NMat
    /\ LET material == materials[idx] IN
       IF material.sg = Null
       THEN /\ idx' = idx + 1
            /\ UNCHANGED << materials, textures, sgRecs, iorRecs, specRecs,
                            extensionsUsed, pc, inputTextures, specular,
                            specularTexture, metalRoughTexture, calls, pre,
                            lastDispose >>
       ELSE LET specGloss == sgRecs[material.sg]
                specId == Len(specRecs) + 1
                iorId == Len(iorRecs) + 1
                mat1 == moveDiffuse(
                          setMetalRough(material, specGloss, iorId, specId),
                          specGloss)
            IN  /\ specRecs' = Append(specRecs, createSpecular(specGloss))
                /\ iorRecs' = Append(iorRecs, createIOR)
                /\ specular' = specId
                /\ inputTextures' = inputTextures \cup stash(material, specGloss)
                /\ IF specGloss.specularGlossinessTexture # Null
                   THEN /\ textures' = createTexture(idx, "specularTexture")
                        /\ specularTexture' = Len(textures) + 1
                        /\ materials' = [materials EXCEPT ![idx] = mat1]
                        /\ pc' = "rewrite1"
                        /\ UNCHANGED idx
                   ELSE /\ materials' = [materials EXCEPT ![idx] =
                              removeSpecGloss(
                                [mat1 EXCEPT !.roughnessFactor =
                                   scalarRoughness(specGloss.glossinessFactor)])]
                        /\ idx' = idx + 1
                        /\ UNCHANGED << textures, specularTexture, pc >>
                /\ UNCHANGED << sgRecs, extensionsUsed, metalRoughTexture,
                                calls, pre, lastDispose >>

\* Faulty variant: the specular texture is bound in place of the new one.
setMetallicRoughnessTextureWrong(mat, tex, specGloss) ==
    [mat EXCEPT !.metallicRoughnessTexture = specularTexture,
                !.metallicRoughnessTextureInfo =
                    specGloss.specularGlossinessTextureInfo]

\* Lines 125-127: bind the new metallic-roughness texture.
setMetallicRoughnessTexture(mat, tex, specGloss) ==
    [mat EXCEPT !.metallicRoughnessTexture = tex,
                !.metallicRoughnessTextureInfo =
                    specGloss.specularGlossinessTextureInfo]

\* Faulty variant: the second recoding is started but not awaited, so the iteration
\* runs to its end while the metallic-roughness texture has no image yet.
Rewrite1DoneNoAwait ==
    /\ pc = "rewrite1"
    /\ LET specGloss == sgRecs[materials[idx].sg]
           sgTexture == specGloss.specularGlossinessTexture
           written == [textures EXCEPT ![specularTexture].image =
                         rewriteTexture(textures[sgTexture].image, specularCallback)]
       IN  /\ specRecs' = [specRecs EXCEPT
                 ![specular].specularTexture = specularTexture,
                 ![specular].specularTextureInfo =
                     specGloss.specularGlossinessTextureInfo]
           /\ textures' = Append(written,
                 [live |-> TRUE, image |-> NoImage, by |-> idx,
                  slot |-> "metallicRoughnessTexture"])
           /\ metalRoughTexture' = Len(textures) + 1
           /\ materials' = [materials EXCEPT ![idx] =
                 removeSpecGloss(
                   setMetallicRoughnessTexture(@, Len(textures) + 1, specGloss))]
    /\ idx' = idx + 1
    /\ pc' = "loop"
    /\ UNCHANGED << sgRecs, iorRecs, extensionsUsed, inputTextures, specular,
                    specularTexture, calls, pre, lastDispose >>

\* The first recoding resolves: lines 107-116.
Rewrite1Done ==
    /\ pc = "rewrite1"
    /\ LET specGloss == sgRecs[materials[idx].sg]
           sgTexture == specGloss.specularGlossinessTexture
           written == [textures EXCEPT ![specularTexture].image =
                         rewriteTexture(textures[sgTexture].image, specularCallback)]
       IN  /\ specRecs' = [specRecs EXCEPT
                 ![specular].specularTexture = specularTexture,
                 ![specular].specularTextureInfo =
                     specGloss.specularGlossinessTextureInfo]
           /\ textures' = Append(written,
                 [live |-> TRUE, image |-> NoImage, by |-> idx,
                  slot |-> "metallicRoughnessTexture"])
           /\ metalRoughTexture' = Len(textures) + 1
    /\ pc' = "rewrite2"
    /\ UNCHANGED << materials, sgRecs, iorRecs, extensionsUsed, idx,
                    inputTextures, specular, specularTexture, calls, pre,
                    lastDispose >>

\* The second recoding resolves: lines 117-134, the end of the iteration.
Rewrite2Done ==
    /\ pc = "rewrite2"
    /\ LET specGloss == sgRecs[materials[idx].sg]
           sgTexture == specGloss.specularGlossinessTexture
           glossinessFactor == specGloss.glossinessFactor
       IN  /\ textures' = [textures EXCEPT ![metalRoughTexture].image =
                 rewriteTexture(textures[sgTexture].image,
                                roughnessCallback(glossinessFactor))]
           /\ materials' = [materials EXCEPT ![idx] =
                 removeSpecGloss(
                   setMetallicRoughnessTexture(@, metalRoughTexture, specGloss))]
    /\ idx' = idx + 1
    /\ pc' = "loop"
    /\ UNCHANGED << sgRecs, iorRecs, specRecs, extensionsUsed, inputTextures,
                    specular, specularTexture, metalRoughTexture, calls, pre,
                    lastDispose >>

\* A recoding rejects (the image cannot be decoded or encoded): the await
\* throws, nothing catches it, and the promise of the run rejects.
RewriteFail ==
    /\ pc \in {"rewrite1", "rewrite2"}
    /\ pc' = "failed"
    /\ UNCHANGED << materials, textures, sgRecs, iorRecs, specRecs,
                    extensionsUsed, idx, inputTextures, specular,
                    specularTexture, metalRoughTexture, calls, pre, lastDispose >>

\* Faulty variant: the registry is not disposed.
DisposeRegistrySkipped ==
    /\ pc = "loop"
    /\ idx > NMat
    /\ pc' = "cleanup"
    /\ UNCHANGED << materials, textures, sgRecs, iorRecs, specRecs,
                    extensionsUsed, idx, inputTextures, specular,
                    specularTexture, metalRoughTexture, calls, pre, lastDispose >>

\* Line 138, after the loop.
DisposeRegistry ==
    /\ pc = "loop"
    /\ idx > NMat
    /\ ExtensionDispose(SG)
    /\ pc' = "cleanup"
    /\ UNCHANGED << textures, idx, inputTextures, specular, specularTexture,
                    metalRoughTexture, calls, pre >>

\* Faulty variant: one binding besides the root still counts as unused.
unusedOffByOne(tex) == tex # Null /\ Cardinality(listParents(tex)) <= 2

\* Line 142: the test that decides whether a stashed texture is disposed.
unused(tex) == tex # Null /\ Cardinality(listParents(tex)) = 1

\* Lines 141-145: the cleanup pass and the end of the run.
Cleanup ==
    /\ pc = "cleanup"
    /\ textures' = [t \in DOMAIN textures |->
          IF t \in inputTextures /\ unused(t)
          THEN [textures[t] EXCEPT !.live = FALSE]
          ELSE textures[t]]
    /\ pc' = "done"
    /\ UNCHANGED << materials, sgRecs, iorRecs, specRecs, extensionsUsed, idx,
                    inputTextures, specular, specularTexture,
                    metalRoughTexture, calls, pre, lastDispose >>

\* ---- the extension test -------------------------------------------------
\* materials-specular.test.js line 36: a caller disposes a registry of the
\* document while no transform is running.  The document is then no longer
\* the result of a run.
TestDispose ==
    /\ Idle
    /\ calls < MaxCalls
    /\ calls' = calls + 1
    /\ \E e \in extensionsUsed : ExtensionDispose(e)
    /\ pc' = "idle"
    /\ UNCHANGED << textures, idx, inputTextures, specular, specularTexture,
                    metalRoughTexture, pre >>

Next ==
    \/ Start
    \/ ConvertMaterial
    \/ Rewrite1Done
    \/ Rewrite2Done
    \/ RewriteFail
    \/ DisposeRegistry
    \/ Cleanup
    \/ TestDispose

Spec == Init /\ [][Next]_vars

SpecValues == InitValues /\ [][Next]_vars

\* ---- properties ---------------------------------------------------------
\* The run that just ended reached line 145.
Completed == pc = "done"

\* The spec/gloss record material m held when the current run started.
PreRecord(m) == pre.sgRecs[pre.materials[m].sg]

Converted(m) == pre.materials[m].sg # Null

Root == << "Root", 0, "textures" >>

\* The bindings that refer to texture t, in the document and at the start
\* of the current run.
Refs(t) == listParents(t) \ {Root}
PreRefs(t) == listParentsIn(pre, t) \ {Root}

\* C1: after a completed run no material carries a spec/gloss record and the
\* document no longer declares the spec/gloss extension, however many
\* materials carried a record when the run started (none included).
C1_NoSpecGlossAfterRun ==
    Completed =>
        /\ \A m \in Mats : materials[m].sg = Null
        /\ SG \notin extensionsUsed

C1_Witness ==
    /\ Completed
    /\ SG \in pre.extensionsUsed
    /\ \E m \in Mats : Converted(m)
    /\ \A m \in Mats : materials[m].sg = Null

\* C2: a run on a document that does not declare the spec/gloss extension
\* changes nothing: materials, textures, records and the used-extensions
\* list are what they were when the run started.
C2_NoOpWhenNotDeclared ==
    pc = "skipped" =>
        /\ SG \notin pre.extensionsUsed
        /\ Snapshot = pre

\* A second run, right after a first one that converted a material.
C2_Witness ==
    /\ pc = "skipped"
    /\ {IOR, SPECULAR} \subseteq extensionsUsed
    /\ \E m \in Mats : materials[m].ior # Null /\ materials[m].spec # Null

BoundTextures(mat) ==
    {mat.baseColorTexture, mat.metallicRoughnessTexture} \ {Null}

C4_UnconvertedUntouched ==
    Completed =>
        \A m \in Mats :
            ~Converted(m) =>
                /\ materials[m] = pre.materials[m]
                /\ \A t \in BoundTextures(materials[m]) :
                       pre.textures[t].live => textures[t].live

C4_Witness ==
    /\ Completed
    /\ \E m \in Mats :
         /\ ~Converted(m)
         /\ \E t \in BoundTextures(materials[m]) :
              /\ t \in inputTextures
              /\ textures[t].live
              /\ Refs(t) = {<< "Material", m, "baseColorTexture" >>}

\* C5: after a completed run, a texture whose every reference at the start
\* was one the conversion removes (the combined texture of a converted
\* material's record, a base-color texture displaced by a diffuse texture,
\* a metallic-roughness texture displaced by the new one) is disposed; a
\* texture some binding still refers to is not; nothing outside the cleanup
\* set is disposed, and the absent entry of the set is skipped.
RemovedRefs ==
    {<< "PBRSpecularGlossiness", pre.materials[m].sg, "specularGlossinessTexture" >> :
        m \in {n \in Mats : Converted(n)}}
    \cup {<< "Material", m, "baseColorTexture" >> :
        m \in {n \in Mats : Converted(n) /\ PreRecord(n).diffuseTexture # Null}}
    \cup {<< "Material", m, "metallicRoughnessTexture" >> :
        m \in {n \in Mats :
                 Converted(n) /\ PreRecord(n).specularGlossinessTexture # Null}}

Orphaned(t) ==
    /\ pre.textures[t].live
    /\ PreRefs(t) # {}
    /\ PreRefs(t) \subseteq RemovedRefs

C5_OrphanCleanup ==
    Completed =>
        /\ \A t \in DOMAIN pre.textures : Orphaned(t) => ~textures[t].live
        /\ \A t \in DOMAIN textures : Refs(t) # {} => textures[t].live
        /\ \A t \in DOMAIN pre.textures :
               (pre.textures[t].live /\ ~textures[t].live) => t \in inputTextures

\* Two orphans of different kinds are disposed, the set holds the absent
\* entry, and a texture of the set that is still referenced survives.
C5_Witness ==
    /\ Completed
    /\ Null \in inputTextures
    /\ \E t \in DOMAIN pre.textures :
         /\ Orphaned(t)
         /\ ~textures[t].live
         /\ \E m \in Mats : << "Material", m, "metallicRoughnessTexture" >> \in PreRefs(t)
    /\ \E t \in inputTextures \ {Null} : textures[t].live /\ Refs(t) # {}

\* C6: when a recoding fails the run aborts and the document is not left
\* partially converted: no material holds the spec/gloss record together
\* with the new records or factors, no material is left converted, and no
\* texture created by the run remains.
C6_AbortLeavesNoPartialState ==
    pc = "failed" =>
        /\ \A m \in Mats :
              materials[m].sg # Null =>
                  /\ materials[m].ior = pre.materials[m].ior
                  /\ materials[m].spec = pre.materials[m].spec
                  /\ materials[m].baseColorFactor = pre.materials[m].baseColorFactor
        /\ \A m \in Mats : Converted(m) => materials[m].sg # Null
        /\ Len(textures) = Len(pre.textures)

\* C7: for a material with a combined texture, after a completed run the
\* specular texture is the source with channel 3 = 255, the
\* metallic-roughness texture is <<0, 255 - round(alpha * glossiness), 0,
\* 255>> with the source's own alpha, both have the source's shape, and the
\* source image is what it was.
\* v is Math.round(n / d): the integer with v - 1/2 <= n / d < v + 1/2.
IsRound(v, n, d) == 2 * d * v <= 2 * n + d /\ 2 * n + d < 2 * d * (v + 1)

C7_Recoding ==
    Completed =>
        \A m \in Mats :
            (Converted(m) /\ PreRecord(m).specularGlossinessTexture # Null) =>
                LET src == pre.textures[PreRecord(m).specularGlossinessTexture].image
                    st == textures[specRecs[materials[m].spec].specularTexture].image
                    mr == textures[materials[m].metallicRoughnessTexture].image
                IN  /\ textures[PreRecord(m).specularGlossinessTexture].image = src
                    /\ st.w = src.w /\ st.h = src.h /\ Len(st.px) = src.w * src.h
                    /\ mr.w = src.w /\ mr.h = src.h /\ Len(mr.px) = src.w * src.h
                    /\ \A k \in 1..Len(src.px) :
                          /\ st.px[k][4] = 255
                          /\ \A c \in 1..3 : st.px[k][c] = src.px[k][c]
                          /\ mr.px[k][1] = 0
                          /\ mr.px[k][3] = 0
                          /\ mr.px[k][4] = 255
                          /\ mr.px[k][2] \in 0..255
                          /\ IsRound(255 - mr.px[k][2],
                                     src.px[k][4] * PreRecord(m).glossinessFactor,
                                     Unit)

\* A pixel whose alpha times glossiness falls on a half, in an image of more
\* than one pixel, and whose alpha the specular texture has stripped.
C7_Witness ==
    /\ Completed
    /\ \E m \in Mats :
         /\ Converted(m)
         /\ PreRecord(m).specularGlossinessTexture # Null
         /\ LET src == pre.textures[PreRecord(m).specularGlossinessTexture].image
                mr == textures[materials[m].metallicRoughnessTexture].image
            IN  /\ Len(src.px) > 1
                /\ \E k \in 1..Len(src.px) :
                     /\ src.px[k][4] \notin {0, 255}
                     /\ (2 * src.px[k][4] * PreRecord(m).glossinessFactor) % (2 * Unit) = Unit
                     /\ mr.px[k][2] \notin {0, 255}

\* C8: disposing a registry detaches its records from every material and
\* removes the extension from the used-extensions list; factors and the
\* records of other extensions stay.  The disposals are line 138 of the
\* transform and line 36 of the test.
DisposedBy(e) ==
    /\ e \notin extensionsUsed'
    /\ \A m \in Mats :
          /\ getExtension(materials'[m], e) = Null
          /\ \A x \in ExtensionNames \ {e} :
                 getExtension(materials'[m], x) = getExtension(materials[m], x)
          /\ materials'[m].baseColorFactor = materials[m].baseColorFactor
          /\ materials'[m].metallicFactor = materials[m].metallicFactor
          /\ materials'[m].roughnessFactor = materials[m].roughnessFactor

C8_DisposeDetaches ==
    [][ /\ (pc = "loop" /\ pc' = "cleanup") => DisposedBy(SG)
        /\ (Idle /\ pc' = "idle") => \E e \in extensionsUsed : DisposedBy(e)
      ]_vars

\* A record two materials shared was attached, and is attached no more.
C8_Witness ==
    /\ lastDispose.shared
    /\ Cardinality(lastDispose.mats) >= 2
    /\ \A m \in lastDispose.mats : getExtension(materials[m], lastDispose.ext) = Null
    /\ lastDispose.ext \notin extensionsUsed

\* C9 as stated: from its creation a texture the transform created is
\* referenced by exactly the binding of its creator (the specular record's
\* texture or the material's metallic-roughness texture), unless that
\* binding has been cleared by the disposal of the specular record.
Created(t) == textures[t].by # Null

CreatorRefs(t) ==
    IF textures[t].slot = "metallicRoughnessTexture"
    THEN {<< "Material", textures[t].by, "metallicRoughnessTexture" >>}
    ELSE {<< "Specular", s, "specularTexture" >> :
            s \in {q \in DOMAIN specRecs : specRecs[q].specularTexture = t}}

Cleared(t) ==
    /\ textures[t].slot = "specularTexture"
    /\ \E s \in DOMAIN specRecs :
          specRecs[s].specularTexture = t /\ ~specRecs[s].live

C9_BoundFromCreation ==
    \A t \in DOMAIN textures :
        Created(t) =>
            \/ Cleared(t)
            \/ (Cardinality(Refs(t)) = 1 /\ Refs(t) = CreatorRefs(t))

\* C9 amended: a created texture is unreferenced while its recoding is
\* pending; once recoded it is referenced by exactly the binding of its
\* creator until that binding is cleared; it is never bound elsewhere,
\* never in the cleanup set and never disposed.
Recoded(t) == textures[t].image # NoImage

C9_BoundOnceRecoded ==
    \A t \in DOMAIN textures :
        Created(t) =>
            /\ textures[t].live
            /\ t \notin inputTextures
            /\ Refs(t) \subseteq CreatorRefs(t)
            /\ Cardinality(Refs(t)) <= 1
            /\ ~Recoded(t) => Refs(t) = {}
            /\ (Recoded(t) /\ ~Cleared(t)) => Cardinality(Refs(t)) = 1

\* Both materials have created and bound their textures, and the cleanup
\* pass has run.
C9_Witness ==
    /\ Completed
    /\ \A m \in Mats :
         \E t, u \in DOMAIN textures :
            /\ textures[t].by = m /\ textures[t].slot = "specularTexture"
            /\ textures[u].by = m /\ textures[u].slot = "metallicRoughnessTexture"
            /\ Cardinality(Refs(t)) = 1
            /\ Refs(u) = {<< "Material", m, "metallicRoughnessTexture" >>}
    /\ \E t \in DOMAIN textures : ~textures[t].live

\* C10: the steps of a run are ordered.  A material loses its record in the
\* loop only as the current material and, with a combined texture, only
\* when both its textures are recoded and bound; the loop advances only
\* past a material without a record and never out of a pending recoding;
\* the registry is disposed only when every material is processed; a
\* texture is disposed only in the cleanup pass, after the disposal of the
\* registry, with no conversion pending.
InLoop == pc \in {"loop", "rewrite1", "rewrite2"}

BothRecoded(mat) ==
    /\ mat.metallicRoughnessTexture \in DOMAIN textures'
    /\ textures'[mat.metallicRoughnessTexture].image # NoImage
    /\ mat.spec \in DOMAIN specRecs'
    /\ specRecs'[mat.spec].specularTexture \in DOMAIN textures'
    /\ textures'[specRecs'[mat.spec].specularTexture].image # NoImage

C10_Order ==
    [][ /\ \A m \in Mats :
              (InLoop /\ pc' # "cleanup"
                 /\ materials[m].sg # Null /\ materials'[m].sg = Null) =>
                  /\ m = idx
                  /\ sgRecs[materials[m].sg].specularGlossinessTexture # Null =>
                         (pc = "rewrite2" /\ BothRecoded(materials'[m]))
        /\ (InLoop /\ idx' # idx) =>
              /\ idx' = idx + 1
              /\ pc' = "loop"
              /\ materials'[idx].sg = Null
        /\ (InLoop /\ SG \in extensionsUsed /\ SG \notin extensionsUsed') =>
              /\ idx > NMat
              /\ \A m \in Mats : materials[m].sg = Null
        /\ (\E t \in DOMAIN textures : textures[t].live /\ ~textures'[t].live) =>
              /\ pc = "cleanup"
              /\ SG \notin extensionsUsed
              /\ idx > NMat
              /\ \A m \in Mats : materials[m].sg = Null
      ]_vars

\* Two conversions with recodings ran one after the other and the cleanup
\* pass then disposed a texture.
C10_Witness ==
    /\ Completed
    /\ \A m \in Mats :
         /\ Converted(m)
         /\ PreRecord(m).specularGlossinessTexture # Null
    /\ \E t \in DOMAIN pre.textures : pre.textures[t].live /\ ~textures[t].live

====
